---- MODULE Spec2Model ----
(***************************************************************************)
(* Event lifecycle of the event-sorter application: the REST handlers over *)
(* the Event store (create, get, update, soft delete, list, bin, restore,  *)
(* purge), the expiration sweep and the Google Calendar sync.              *)
(*                                                                         *)
(* Every handler is split at its awaits on the store or on an external     *)
(* service: one action per store/external call, so that concurrent         *)
(* requests interleave exactly where the code can be suspended.            *)
(***************************************************************************)
EXTENDS Integers, Sequences, FiniteSets, TLC

(***************************************************************************)
(* Bounds of the model.                                                    *)
(***************************************************************************)
\* number of events that are ever created (ids 1..MaxEvents, never reused)
MaxEvents == 2
\* number of entries the calendar provider is asked to create
MaxCalendarEntries == 2
\* number of request slots that run handlers concurrently
NumProcs == 2
\* the messages the user sends in a conversation
MaxUserTurns == 2

(***************************************************************************)
(* Values.                                                                 *)
(***************************************************************************)
\* JavaScript undefined (a field absent from the request body) and null
Undef == "undefined"
Null == "null"
\* a nullable DateTime column: <<>> is null, <<t>> the instant t, in minutes
\* since 2025-05-31T00:00Z; new Date(undefined), an Invalid Date, is <<>> too
NoDate == << >>

Users == {"A", "B"}
\* getServerSession returned no session
NoUser == "anonymous"
Callers == Users \cup {NoUser}

Procs == 1..NumProcs
EventIds == 1..MaxEvents

MinutesPerHour == 60
\* the least length of the text of a page that is sent to the provider
MinTextLength == 50
MinutesPerDay == 24 * MinutesPerHour

\* the days a request body can name, day 0 first
Days == <<"2025-05-31", "2025-06-01", "2025-06-02">>
SplitTime(s) ==
  CASE s = "01:30" -> <<1, 30>>
    [] s = "20:00" -> <<20, 0>>
    [] s = "22:30" -> <<22, 30>>
    [] s = "23:30" -> <<23, 30>>
    [] OTHER -> <<22, 0>>

\* the instants at which the clock is read: 2025-06-01 00:30 and 01:00
Instants == <<MinutesPerDay + 30, MinutesPerDay + 60>>

(***************************************************************************)
(* Request bodies: every field is a string, Undef when the body lacks it.  *)
(***************************************************************************)
EmptyBody ==
  [name |-> Undef, description |-> Undef, location |-> Undef, date |-> Undef,
   endDate |-> Undef, time |-> Undef, ticketUrl |-> Undef, price |-> Undef,
   imageUrl |-> Undef, googleEventId |-> Undef]

\* every field submitted: a two-day event on 2025-06-01 at 20:00
FullBody ==
  [EmptyBody EXCEPT !.name = "Gig", !.description = "with friends",
     !.location = "Hall", !.date = "2025-06-01", !.endDate = "2025-06-02",
     !.time = "20:00", !.ticketUrl = "https://tickets", !.price = "Free",
     !.imageUrl = "/uploads/gig.jpg"]
\* only the required fields: an all-day event on 2025-05-31
AllDayBody == [EmptyBody EXCEPT !.name = "Market", !.date = "2025-05-31"]
NoNameBody == [EmptyBody EXCEPT !.date = "2025-06-01"]
NoDateBody == [EmptyBody EXCEPT !.name = "Gig"]
EndBeforeStartBody ==
  [EmptyBody EXCEPT !.name = "Tour", !.date = "2025-06-02",
     !.endDate = "2025-06-01"]

\* the all-day event under another name
RenameBody == [AllDayBody EXCEPT !.name = "Fair"]

ValidBodies == {FullBody, AllDayBody}
\* an all-day event on Monday 2025-06-02
MondayBody == [EmptyBody EXCEPT !.name = "Tour", !.date = "2025-06-02"]

\* the all-day event and timed events around the first instant: two hours
\* before it, an hour before it and an hour after it
SweepBodies ==
  {AllDayBody,
   [AllDayBody EXCEPT !.name = "Matinee", !.time = "22:30"],
   [AllDayBody EXCEPT !.name = "Late show", !.time = "23:30"],
   [EmptyBody EXCEPT !.name = "Night bus", !.date = "2025-06-01",
      !.time = "01:30"]}
InvalidBodies == {NoNameBody, NoDateBody, EndBeforeStartBody}

\* new Date("YYYY-MM-DD"): midnight UTC of that day
NewDate(d) ==
  IF \E i \in 1..Len(Days) : Days[i] = d
    THEN << ((CHOOSE i \in 1..Len(Days) : Days[i] = d) - 1) * MinutesPerDay >>
    ELSE NoDate

\* a value the client left out is stored as null
OrNull(v) == IF v = Undef THEN Null ELSE v

(***************************************************************************)
(* The Event table: a function from the ids of its rows to the rows.       *)
(***************************************************************************)
Rows(evs) == DOMAIN evs

\* The Event model of the schema: name and date are required columns, every
\* other column is nullable.  prisma.event.create throws on a row it refuses.
SchemaAccepts(row) == row.name # Null /\ row.date # NoDate

\* evs with the row of id inserted or replaced
Put(evs, id, row) ==
  [i \in Rows(evs) \cup {id} |-> IF i = id THEN row ELSE evs[i]]

\* prisma.event.deleteMany({ where: { id: { in: ids } } })
DeleteMany(evs, ids) == [i \in Rows(evs) \ ids |-> evs[i]]

\* prisma.event.update({ where: { id }, data }): a field whose value is
\* undefined is left as it is
UpdateRow(row, data) ==
  [f \in DOMAIN row |->
     IF f \in DOMAIN data /\ data[f] # Undef THEN data[f] ELSE row[f]]

\* the ids of S as a sequence, in ascending order of key; rows of one key
\* come in the order of their ids
RECURSIVE OrderBy(_, _)
OrderBy(S, key) ==
  IF S = {} THEN << >>
  ELSE LET first == CHOOSE i \in S : \A j \in S \ {i} :
                      key[i] < key[j] \/ (key[i] = key[j] /\ i < j)
       IN  <<first>> \o OrderBy(S \ {first}, key)

\* orderBy: { date: "asc" }
DateAsc(evs, S) == OrderBy(S, [i \in S |-> evs[i].date[1]])
\* orderBy: { deletedAt: "desc" }
DeletedAtDesc(evs, S) == OrderBy(S, [i \in S |-> 0 - evs[i].deletedAt[1]])

(***************************************************************************)
(* The three versions of the events route that the repository holds.       *)
(***************************************************************************)
\* GET without the deletedAt filter, sweep over all the user's rows
Legacy == "legacy"
\* GET with the deletedAt filter, sweep over the user's active rows
Sweeping == "sweeping"
\* GET with the deletedAt filter and no sweep; POST stores endDate and price
Current == "current"
Variants == {Legacy, Sweeping, Current}

VARIABLES
  variant,   \* the version of the events route that is deployed
  now,       \* the clock, in minutes
  events,    \* the Event table
  nextId,    \* the number of ids handed out so far, plus one
  account,   \* the Google account row of each user
  calendar,  \* the entries created at the calendar provider, oldest first
  procs,     \* the request slots: the handler each runs and where it is
  last,      \* the response sent last: the operation and the id it answers,
             \* its status and the rows it carries
  sweep,     \* the background sweep started by the last list request
  preDel,    \* for each row that was put in the bin and that only soft deletes
             \* and restores have written since, the row as it was before
  page       \* the page that A's browser shows: its React state

vars == <<variant, now, events, nextId, account, calendar, procs, last, sweep,
          preDel, page>>

(***************************************************************************)
(* Requests and responses.                                                 *)
(***************************************************************************)
IdleProc ==
  [pc |-> "idle", op |-> "none", user |-> NoUser, id |-> 0, body |-> EmptyBody,
   ids |-> {}, event |-> << >>, accessToken |-> Null, data |-> Null,
   googleEventId |-> Null]

Request(op, u, id, body) ==
  [IdleProc EXCEPT !.pc = "run", !.op = op, !.user = u, !.id = id, !.body = body]

\* a slot can take a request when it runs none
Free(p) == procs[p].pc = "idle"

NoResponse == [op |-> "none", id |-> 0, status |-> 0, out |-> << >>]

\* NextResponse.json(..., { status }): the handler of req ends.  out lists the
\* ids of the rows that the response carries, each as the handler has just
\* read or written it.
Reply(p, req, status, out) ==
  /\ procs' = [procs EXCEPT ![p] = IdleProc]
  /\ last' = [op |-> req.op, id |-> req.id, status |-> status, out |-> out]

\* the handler goes on to its next await
Goto(p, req, pc) ==
  /\ procs' = [procs EXCEPT ![p] = [req EXCEPT !.pc = pc]]
  /\ UNCHANGED last

\* preDel once the rows of ids are removed or written otherwise
Forget(ids) == [i \in EventIds |-> IF i \in ids THEN << >> ELSE preDel[i]]

\* preDel once the row of id is put in the bin: the row as it was when it was
\* last active
Remember(id) ==
  IF events[id].deletedAt = NoDate
    THEN [preDel EXCEPT ![id] = <<events[id]>>]
    ELSE preDel

IdleSweep == [pc |-> "idle", user |-> NoUser, now |-> 0, ids |-> {}]

\* the home page as it is mounted, in a browser whose clock is zone minutes
\* ahead of UTC: no events, no selection, every event shown, no handler
\* running, no fetch pending or answered
MountedPage(zone) ==
  [view |-> "home", zone |-> zone, events |-> << >>, timeFilter |-> "all",
   filteredEvents |-> << >>, selectedIds |-> {}, pc |-> "idle",
   pending |-> {}, calling |-> 0, responses |-> {}, alerted |-> FALSE]

\* A's access token expires three minutes after the second instant; B's
\* account has no expiry and no refresh token
InitAccount ==
  [u \in Users |->
     IF u = "A"
       THEN [access_token |-> "at0", refresh_token |-> "rt0",
             expires_at |-> Instants[2] + 3]
       ELSE [access_token |-> "bt0", refresh_token |-> Null, expires_at |-> 0]]

\* the state before the first request, but for the accounts
InitStore ==
  /\ variant \in Variants
  /\ now = Instants[1]
  /\ events = << >>
  /\ nextId = 1
  /\ calendar = << >>
  /\ procs = [p \in Procs |-> IdleProc]
  /\ last = NoResponse
  /\ sweep = IdleSweep
  /\ preDel = [id \in EventIds |-> << >>]
  /\ page = MountedPage(0)

Init == InitStore /\ account = InitAccount

\* time passes
Tick ==
  /\ \E i \in 1..Len(Instants) : Instants[i] > now /\ now' = Instants[i]
  /\ UNCHANGED <<variant, events, nextId, account, calendar, procs, last,
                 sweep, preDel, page>>

(***************************************************************************)
(* Expiry, as cleanupExpiredEvents and deleteExpiredEvents compute it.     *)
(***************************************************************************)
\* eventDateTime.setHours(h, m, 0, 0), the server running in UTC
SetHours(date, h, m) ==
  << (date[1] \div MinutesPerDay) * MinutesPerDay + h * MinutesPerHour + m >>

\* the event's date at its time of day, or at 23:59 when it has none
EventDateTime(row) ==
  IF row.time # Null
    THEN SetHours(row.date, SplitTime(row.time)[1], SplitTime(row.time)[2])
    ELSE SetHours(row.date, 23, 59)

\* eventDateTime.getTime() + 60 * 60 * 1000
ExpiryTime(row) == EventDateTime(row)[1] + MinutesPerHour

\* the ids of the rows that are past their expiry, not those just at it
ExpiredIdsAfter(evs, scanned, t) == {i \in scanned : t > ExpiryTime(evs[i])}

\* the ids pushed on expiredEventIds from the rows of the scan, at instant t
ExpiredIds(evs, scanned, t) == {i \in scanned : t >= ExpiryTime(evs[i])}

\* the where clause of the sweep's findMany: the user's rows dated up to t,
\* and from the second version of the route on only those not in the bin
SweepScanned(evs, u, t) ==
  {i \in Rows(evs) :
     /\ evs[i].userId = u
     /\ evs[i].date[1] <= t
     /\ (variant = Legacy \/ evs[i].deletedAt = NoDate)}

\* the where clause of deleteExpiredEvents' findMany: every row dated up to t
CleanupScanned(evs, t) == {i \in Rows(evs) : evs[i].date[1] <= t}

(***************************************************************************)
(* /api/events                                                             *)
(***************************************************************************)
\* the where clause of GET's findMany
ActiveWhere(evs, u) ==
  {i \in Rows(evs) :
     evs[i].userId = u /\ (variant = Legacy \/ evs[i].deletedAt = NoDate)}

\* the data of POST's prisma.event.create
CreateData(u, id, b) ==
  [id |-> id, userId |-> u, name |-> OrNull(b.name),
   description |-> OrNull(b.description), location |-> OrNull(b.location),
   date |-> NewDate(b.date),
   endDate |-> IF variant = Current /\ b.endDate # Undef
                 THEN NewDate(b.endDate) ELSE NoDate,
   time |-> OrNull(b.time), ticketUrl |-> OrNull(b.ticketUrl),
   price |-> IF variant = Current THEN OrNull(b.price) ELSE Null,
   imageUrl |-> OrNull(b.imageUrl), googleEventId |-> Null,
   deletedAt |-> NoDate]

\* GET /api/events up to its await on findMany; in the versions that sweep,
\* cleanupExpiredEvents has been called and has read the clock
EventsGET(p, u) ==
  /\ Free(p)
  /\ LET req == Request("listActive", u, 0, EmptyBody) IN
     IF u = NoUser
       THEN Reply(p, req, 401, << >>) /\ UNCHANGED sweep
       ELSE /\ Goto(p, req, "list")
            /\ IF variant = Current
                 THEN UNCHANGED sweep
                 ELSE /\ sweep.pc = "idle"
                      /\ sweep' = [pc |-> "scan", user |-> u, now |-> now,
                                   ids |-> {}]
  /\ UNCHANGED <<variant, now, events, nextId, account, calendar, preDel,
                 page>>

\* a GET that awaits cleanupExpiredEvents and fails when it has failed
EventsGETFindAwaited(p) ==
  /\ procs[p].pc = "list"
  /\ sweep.pc \in {"idle", "rejected"}
  /\ IF sweep.pc = "rejected"
       THEN Reply(p, procs[p], 500, << >>)
       ELSE Reply(p, procs[p], 200,
                  DateAsc(events, ActiveWhere(events, procs[p].user)))
  /\ UNCHANGED <<variant, now, events, nextId, account, calendar, sweep,
                 preDel, page>>

\* GET /api/events: findMany answers
EventsGETFind(p) ==
  /\ procs[p].pc = "list"
  /\ Reply(p, procs[p], 200, DateAsc(events, ActiveWhere(events, procs[p].user)))
  /\ UNCHANGED <<variant, now, events, nextId, account, calendar, sweep,
                 preDel, page>>

\* cleanupExpiredEvents: findMany answers and the loop fills expiredEventIds
cleanupExpiredEventsScan ==
  /\ sweep.pc = "scan"
  /\ LET ids == ExpiredIds(events, SweepScanned(events, sweep.user, sweep.now),
                           sweep.now)
     IN  sweep' = IF ids = {} THEN IdleSweep
                  ELSE [sweep EXCEPT !.pc = "delete", !.ids = ids]
  /\ UNCHANGED <<variant, now, events, nextId, account, calendar, procs, last,
                 preDel, page>>

\* cleanupExpiredEvents: deleteMany
cleanupExpiredEventsDelete ==
  /\ sweep.pc = "delete"
  /\ events' = DeleteMany(events, sweep.ids)
  /\ preDel' = Forget(sweep.ids)
  /\ sweep' = IdleSweep
  /\ UNCHANGED <<variant, now, nextId, account, calendar, procs, last, page>>

\* cleanupExpiredEvents: findMany or deleteMany throws and the promise that GET
\* did not await is rejected
cleanupExpiredEventsThrow ==
  /\ sweep.pc \in {"scan", "delete"}
  /\ sweep' = [sweep EXCEPT !.pc = "rejected"]
  /\ UNCHANGED <<variant, now, events, nextId, account, calendar, procs, last,
                 preDel, page>>

\* GET /api/events: the handler given to catch logs the error
cleanupExpiredEventsCatch ==
  /\ sweep.pc = "rejected"
  /\ sweep' = IdleSweep
  /\ UNCHANGED <<variant, now, events, nextId, account, calendar, procs, last,
                 preDel, page>>

\* POST /api/events
EventsPOST(p, u, b) ==
  /\ Free(p)
  /\ LET req == Request("create", u, 0, b)
         row == CreateData(u, nextId, b)
     IN  IF u = NoUser
           THEN Reply(p, req, 401, << >>) /\ UNCHANGED <<events, nextId>>
         ELSE IF ~SchemaAccepts(row)
           THEN Reply(p, req, 500, << >>) /\ UNCHANGED <<events, nextId>>
         ELSE /\ nextId <= MaxEvents
              /\ events' = Put(events, nextId, row)
              /\ nextId' = nextId + 1
              /\ Reply(p, [req EXCEPT !.id = nextId], 200, <<nextId>>)
  /\ UNCHANGED <<variant, now, account, calendar, sweep, preDel, page>>

(***************************************************************************)
(* /api/events/[id]                                                        *)
(***************************************************************************)
\* findUnique({ where: { id, userId, deletedAt: null } })
FindActive(evs, u, id) ==
  id \in Rows(evs) /\ evs[id].userId = u /\ evs[id].deletedAt = NoDate

\* the check after findUnique({ where: { id } }) in PUT and DELETE:
\* !existing || existing.userId !== session.user.id
Owned(evs, u, id) == id \in Rows(evs) /\ evs[id].userId = u

\* the data of PUT's prisma.event.update
UpdateData(b) ==
  [name |-> b.name, description |-> b.description, location |-> b.location,
   time |-> b.time, ticketUrl |-> b.ticketUrl, imageUrl |-> b.imageUrl,
   googleEventId |-> b.googleEventId]

\* the row after PUT's update
Updated(row, b) == [UpdateRow(row, UpdateData(b)) EXCEPT !.date = NewDate(b.date)]

\* a soft delete that also drops the link to the calendar entry
SoftDeletedUnlinked(row, t) ==
  [row EXCEPT !.deletedAt = <<t>>, !.googleEventId = Null]

\* the row after DELETE's update, at instant t
SoftDeleted(row, t) == [row EXCEPT !.deletedAt = <<t>>]

\* GET /api/events/[id]
EventGET(p, u, id) ==
  /\ Free(p)
  /\ LET req == Request("get", u, id, EmptyBody) IN
     IF u = NoUser THEN Reply(p, req, 401, << >>)
     ELSE IF FindActive(events, u, id) THEN Reply(p, req, 200, <<id>>)
     ELSE Reply(p, req, 404, << >>)
  /\ UNCHANGED <<variant, now, events, nextId, account, calendar, sweep,
                 preDel, page>>

\* PUT /api/events/[id] up to the check of the row findUnique returned
EventPUT(p, u, id, b) ==
  /\ Free(p)
  /\ LET req == Request("update", u, id, b) IN
     IF u = NoUser THEN Reply(p, req, 401, << >>)
     ELSE IF ~Owned(events, u, id) THEN Reply(p, req, 404, << >>)
     ELSE Goto(p, req, "update")
  /\ UNCHANGED <<variant, now, events, nextId, account, calendar, sweep,
                 preDel, page>>

\* an update that creates the row when it is gone (prisma.event.upsert)
EventPUTUpsert(p) ==
  /\ procs[p].pc = "update"
  /\ LET id == procs[p].id
         b == procs[p].body
         old == IF id \in Rows(events) THEN events[id]
                ELSE CreateData(procs[p].user, id, EmptyBody)
     IN  IF NewDate(b.date) # NoDate
           THEN /\ events' = Put(events, id, Updated(old, b))
                /\ preDel' = Forget({id})
                /\ Reply(p, procs[p], 200, <<id>>)
           ELSE Reply(p, procs[p], 500, << >>) /\ UNCHANGED <<events, preDel>>
  /\ UNCHANGED <<variant, now, nextId, account, calendar, sweep, page>>

\* PUT /api/events/[id]: prisma.event.update, which throws when the row is
\* gone or the date is invalid
EventPUTUpdate(p) ==
  /\ procs[p].pc = "update"
  /\ LET id == procs[p].id
         b == procs[p].body
     IN  IF id \in Rows(events) /\ NewDate(b.date) # NoDate
           THEN /\ events' = Put(events, id, Updated(events[id], b))
                /\ preDel' = Forget({id})
                /\ Reply(p, procs[p], 200, <<id>>)
           ELSE Reply(p, procs[p], 500, << >>) /\ UNCHANGED <<events, preDel>>
  /\ UNCHANGED <<variant, now, nextId, account, calendar, sweep, page>>

\* DELETE /api/events/[id] up to the check of the row findUnique returned
EventDELETE(p, u, id) ==
  /\ Free(p)
  /\ LET req == Request("softDelete", u, id, EmptyBody) IN
     IF u = NoUser THEN Reply(p, req, 401, << >>)
     ELSE IF ~Owned(events, u, id) THEN Reply(p, req, 404, << >>)
     ELSE Goto(p, req, "softDelete")
  /\ UNCHANGED <<variant, now, events, nextId, account, calendar, sweep,
                 preDel, page>>

\* DELETE /api/events/[id]: prisma.event.update sets deletedAt to new Date()
EventDELETEUpdate(p) ==
  /\ procs[p].pc = "softDelete"
  /\ LET id == procs[p].id IN
     IF id \in Rows(events)
       THEN /\ events' = Put(events, id, SoftDeleted(events[id], now))
            /\ preDel' = Remember(id)
            /\ Reply(p, procs[p], 200, << >>)
       ELSE Reply(p, procs[p], 500, << >>) /\ UNCHANGED <<events, preDel>>
  /\ UNCHANGED <<variant, now, nextId, account, calendar, sweep, page>>

(***************************************************************************)
(* /api/bin and /api/bin/[id]                                              *)
(***************************************************************************)
\* the where clause of the bin's findMany and deleteMany
BinWhere(evs, u) ==
  {i \in Rows(evs) : evs[i].userId = u /\ evs[i].deletedAt # NoDate}

\* the check without its test of deletedAt
InBinOrActive(evs, u, id) == id \in Rows(evs) /\ evs[id].userId = u

\* the check after findUnique in POST and DELETE of /api/bin/[id]:
\* !existing || existing.userId !== session.user.id || !existing.deletedAt
InBin(evs, u, id) ==
  id \in Rows(evs) /\ evs[id].userId = u /\ evs[id].deletedAt # NoDate

\* the row after POST's update
Restored(row) == [row EXCEPT !.deletedAt = NoDate]

\* GET /api/bin
BinGET(p, u) ==
  /\ Free(p)
  /\ LET req == Request("binList", u, 0, EmptyBody) IN
     IF u = NoUser THEN Reply(p, req, 401, << >>)
     ELSE Reply(p, req, 200, DeletedAtDesc(events, BinWhere(events, u)))
  /\ UNCHANGED <<variant, now, events, nextId, account, calendar, sweep,
                 preDel, page>>

\* DELETE /api/bin
BinDELETE(p, u) ==
  /\ Free(p)
  /\ LET req == Request("purgeAll", u, 0, EmptyBody) IN
     IF u = NoUser THEN Reply(p, req, 401, << >>) /\ UNCHANGED <<events, preDel>>
     ELSE /\ events' = DeleteMany(events, BinWhere(events, u))
          /\ preDel' = Forget(BinWhere(events, u))
          /\ Reply(p, req, 200, << >>)
  /\ UNCHANGED <<variant, now, nextId, account, calendar, sweep, page>>

\* POST /api/bin/[id] up to the check of the row findUnique returned
BinItemPOST(p, u, id) ==
  /\ Free(p)
  /\ LET req == Request("restore", u, id, EmptyBody) IN
     IF u = NoUser THEN Reply(p, req, 401, << >>)
     ELSE IF ~InBin(events, u, id) THEN Reply(p, req, 404, << >>)
     ELSE Goto(p, req, "restore")
  /\ UNCHANGED <<variant, now, events, nextId, account, calendar, sweep,
                 preDel, page>>

\* POST /api/bin/[id]: prisma.event.update clears deletedAt
BinItemPOSTUpdate(p) ==
  /\ procs[p].pc = "restore"
  /\ LET id == procs[p].id IN
     IF id \in Rows(events)
       THEN /\ events' = Put(events, id, Restored(events[id]))
            /\ Reply(p, procs[p], 200, <<id>>)
       ELSE Reply(p, procs[p], 500, << >>) /\ UNCHANGED events
  /\ UNCHANGED <<variant, now, nextId, account, calendar, sweep, preDel, page>>

\* DELETE /api/bin/[id] up to the check of the row findUnique returned
BinItemDELETE(p, u, id) ==
  /\ Free(p)
  /\ LET req == Request("purgeOne", u, id, EmptyBody) IN
     IF u = NoUser THEN Reply(p, req, 401, << >>)
     ELSE IF ~InBin(events, u, id) THEN Reply(p, req, 404, << >>)
     ELSE Goto(p, req, "purge")
  /\ UNCHANGED <<variant, now, events, nextId, account, calendar, sweep,
                 preDel, page>>

\* DELETE /api/bin/[id]: prisma.event.delete, which throws when the row is gone
BinItemDELETEDelete(p) ==
  /\ procs[p].pc = "purge"
  /\ LET id == procs[p].id IN
     IF id \in Rows(events)
       THEN /\ events' = DeleteMany(events, {id})
            /\ preDel' = Forget({id})
            /\ Reply(p, procs[p], 200, << >>)
       ELSE Reply(p, procs[p], 500, << >>) /\ UNCHANGED <<events, preDel>>
  /\ UNCHANGED <<variant, now, nextId, account, calendar, sweep, page>>

(***************************************************************************)
(* /api/events/cleanup                                                     *)
(***************************************************************************)
\* GET and POST /api/events/cleanup: deleteExpiredEvents reads the clock, its
\* findMany answers and the loop fills expiredEventIds.  The route reads no
\* session: u is the caller, whom the handler never looks at.
CleanupGET(p, u) ==
  /\ Free(p)
  /\ LET req == Request("cleanup", u, 0, EmptyBody)
         ids == ExpiredIds(events, CleanupScanned(events, now), now)
     IN  IF ids = {} THEN Reply(p, req, 200, << >>)
         ELSE Goto(p, [req EXCEPT !.ids = ids], "cleanup")
  /\ UNCHANGED <<variant, now, events, nextId, account, calendar, sweep,
                 preDel, page>>

\* deleteExpiredEvents: deleteMany
deleteExpiredEvents(p) ==
  /\ procs[p].pc = "cleanup"
  /\ events' = DeleteMany(events, procs[p].ids)
  /\ preDel' = Forget(procs[p].ids)
  /\ Reply(p, procs[p], 200, << >>)
  /\ UNCHANGED <<variant, now, nextId, account, calendar, sweep, page>>

(***************************************************************************)
(* /api/calendar                                                           *)
(***************************************************************************)
\* the margin of five minutes (300 seconds) and the lifetime of an hour that
\* the token endpoint grants, in minutes
RefreshMargin == 5
ExpiresIn == MinutesPerHour

\* findUnique({ where: { id: eventId, userId } })
FindOwned(evs, u, id) == id \in Rows(evs) /\ evs[id].userId = u

\* a refresh also when exactly the margin is left
NeedsRefreshWithin(expiresAt, t) ==
  expiresAt = 0 \/ expiresAt - t <= RefreshMargin

\* !expiresAt || expiresAt - now < 300
NeedsRefresh(expiresAt, t) == expiresAt = 0 \/ expiresAt - t < RefreshMargin

\* createCalendarEvent: the hours a timed entry lasts, 2 in the calendar
\* service of src/event-sorter, which serves the events routes of
\* src/event-sorter, and 1 in the one that serves the current events route
EntryHours == IF variant = Current THEN 1 ELSE 2

\* createCalendarEvent: the entry calendar.events.insert is asked to create
CalendarEntry(gid, token, event) ==
  [id |-> gid, eventId |-> event.id, token |-> token, summary |-> event.name,
   allDay |-> (event.time = Null),
   start |-> IF event.time = Null THEN event.date
             ELSE SetHours(event.date, SplitTime(event.time)[1],
                           SplitTime(event.time)[2]),
   end |-> IF event.time = Null THEN event.date
           ELSE << SetHours(event.date, SplitTime(event.time)[1],
                            SplitTime(event.time)[2])[1]
                   + EntryHours * MinutesPerHour >>]

\* POST /api/calendar up to the check of the event findUnique returned
CalendarPOST(p, u, id) ==
  /\ Free(p)
  /\ LET req == Request("sync", u, id, EmptyBody) IN
     IF u = NoUser THEN Reply(p, req, 401, << >>)
     ELSE IF ~FindOwned(events, u, id) THEN Reply(p, req, 404, << >>)
     ELSE Goto(p, [req EXCEPT !.event = <<events[id]>>], "account")
  /\ UNCHANGED <<variant, now, events, nextId, account, calendar, sweep,
                 preDel, page>>

\* POST /api/calendar: account.findFirst answers and the expiry is checked
CalendarPOSTAccount(p) ==
  /\ procs[p].pc = "account"
  /\ LET acc == account[procs[p].user] IN
     IF acc.access_token = Null THEN Reply(p, procs[p], 400, << >>)
     ELSE Goto(p, [procs[p] EXCEPT !.accessToken = acc.access_token],
               IF NeedsRefresh(acc.expires_at, now) THEN "refresh" ELSE "create")
  /\ UNCHANGED <<variant, now, events, nextId, account, calendar, sweep,
                 preDel, page>>

\* refreshAccessToken: without a refresh token it throws; else the token
\* endpoint answers, ok with a new access token or not
refreshAccessToken(p, ok) ==
  /\ procs[p].pc = "refresh"
  /\ IF account[procs[p].user].refresh_token = Null \/ ~ok
       THEN Reply(p, procs[p], 401, << >>)
       ELSE Goto(p, [procs[p] EXCEPT !.data = "at1"], "persist")
  /\ UNCHANGED <<variant, now, events, nextId, account, calendar, sweep,
                 preDel, page>>

\* refreshAccessToken: prisma.account.update stores the new access token and
\* its expiry, and the token is returned to POST
refreshAccessTokenUpdate(p) ==
  /\ procs[p].pc = "persist"
  /\ account' = [account EXCEPT
                   ![procs[p].user].access_token = procs[p].data,
                   ![procs[p].user].expires_at = now + ExpiresIn]
  /\ Goto(p, [procs[p] EXCEPT !.accessToken = procs[p].data, !.data = Null],
          "create")
  /\ UNCHANGED <<variant, now, events, nextId, calendar, sweep, preDel, page>>

\* createCalendarEvent: calendar.events.insert answers, with the new entry
\* or with an error
createCalendarEvent(p, ok) ==
  /\ procs[p].pc = "create"
  /\ IF ok
       THEN /\ Len(calendar) < MaxCalendarEntries
            /\ LET gid == ToString(Len(calendar) + 1) IN
               /\ calendar' = Append(calendar,
                    CalendarEntry(gid, procs[p].accessToken, procs[p].event[1]))
               /\ Goto(p, [procs[p] EXCEPT !.googleEventId = gid], "link")
       ELSE Reply(p, procs[p], 500, << >>) /\ UNCHANGED calendar
  /\ UNCHANGED <<variant, now, events, nextId, account, sweep, preDel, page>>

\* the row after the update that stores the calendar entry's id
Linked(row, gid) == [row EXCEPT !.googleEventId = gid]

\* POST /api/calendar: prisma.event.update stores the entry's id
CalendarPOSTUpdate(p) ==
  /\ procs[p].pc = "link"
  /\ LET id == procs[p].id IN
     IF id \in Rows(events)
       THEN /\ events' = Put(events, id, Linked(events[id], procs[p].googleEventId))
            /\ preDel' = Forget({id})
            /\ Reply(p, procs[p], 200, << >>)
       ELSE Reply(p, procs[p], 500, << >>) /\ UNCHANGED <<events, preDel>>
  /\ UNCHANGED <<variant, now, nextId, account, calendar, sweep, page>>

(***************************************************************************)
(* /api/extract-url                                                        *)
(***************************************************************************)
\* the url field of the request body
Urls ==
  {Undef, "tickets.example/gig", "ftp://tickets.example/gig",
   "http://tickets.example/gig", "HTTPS://tickets.example/gig"}

\* new URL(url).protocol, Null when the constructor throws
Protocol(url) ==
  CASE url = "ftp://tickets.example/gig" -> "ftp:"
    [] url = "http://tickets.example/gig" -> "http:"
    [] url = "HTTPS://tickets.example/gig" -> "https:"
    [] OTHER -> Null

\* the bodies the page can answer with, as the pieces of an html document
\* (script and style elements, other tags, runs of white space, and text of
\* len characters without white space): nothing, a page that a script fills,
\* and pages with 49 and with 50 characters of text
Pages ==
  LET Script == [kind |-> "script", len |-> 0]
      Style == [kind |-> "style", len |-> 0]
      Tag == [kind |-> "tag", len |-> 0]
      Space == [kind |-> "space", len |-> 0]
      Text(n) == [kind |-> "text", len |-> n]
  IN  {<< >>,
       <<Tag, Script, Tag, Text(10), Tag, Script>>,
       <<Tag, Text(24), Tag, Space, Tag, Text(24), Tag, Style>>,
       <<Space, Tag, Text(20), Text(5), Tag, Text(24), Script, Space>>}

\* textContent.length: the scripts and styles are removed, a tag becomes a
\* blank, the runs of white space collapse to one blank and the ends are
\* trimmed.  started: text has been seen; gap: white space since then.
RECURSIVE TextLength(_, _, _)
TextLength(html, started, gap) ==
  IF html = << >> THEN 0
  ELSE LET piece == Head(html) IN
       IF piece.kind \in {"script", "style"}
         THEN TextLength(Tail(html), started, gap)
       ELSE IF piece.kind \in {"tag", "space"}
         THEN TextLength(Tail(html), started, started)
       ELSE (IF gap THEN 1 ELSE 0) + piece.len
              + TextLength(Tail(html), TRUE, FALSE)

\* what the fetch of the page ends with: a response that is ok or not, the
\* abort of AbortSignal.timeout, or another error
FetchOutcomes == {"ok", "not ok", "timeout", "error"}

\* what extractEventDataFromText ends with: the extracted data, with or
\* without a ticket url, or an error
ProviderOutcomes == {"https://tickets.example/buy", Null, "error"}

\* POST /api/extract-url up to its fetch of the page
ExtractUrlPOST(p, u, url) ==
  /\ Free(p)
  /\ LET req == [Request("extractUrl", u, 0, EmptyBody) EXCEPT !.data = url] IN
     IF u = NoUser THEN Reply(p, req, 401, <<"Unauthorized">>)
     ELSE IF url = Undef THEN Reply(p, req, 400, <<"No URL provided">>)
     ELSE IF Protocol(url) \notin {"http:", "https:"}
       THEN Reply(p, req, 400, <<"Invalid URL">>)
     ELSE Goto(p, req, "fetch")
  /\ UNCHANGED <<variant, now, events, nextId, account, calendar, sweep,
                 preDel, page>>

\* POST /api/extract-url: the fetch ends
ExtractUrlFetch(p, outcome) ==
  /\ procs[p].pc = "fetch"
  /\ CASE outcome = "ok" -> Goto(p, procs[p], "text")
       [] outcome = "not ok" -> Reply(p, procs[p], 400, <<"Failed to fetch">>)
       [] outcome = "timeout" -> Reply(p, procs[p], 408, <<"Took too long">>)
       [] OTHER -> Reply(p, procs[p], 500, <<"Failed to extract">>)
  /\ UNCHANGED <<variant, now, events, nextId, account, calendar, sweep,
                 preDel, page>>

\* the body is read and extractEventDataFromText is called whatever its text
ExtractUrlTextUnchecked(p, html) ==
  /\ procs[p].pc = "text"
  /\ Goto(p, procs[p], "extract")
  /\ UNCHANGED <<variant, now, events, nextId, account, calendar, sweep,
                 preDel, page>>

\* POST /api/extract-url: response.text() answers, and
\* extractEventDataFromText is called when the text is long enough
ExtractUrlText(p, html) ==
  /\ procs[p].pc = "text"
  /\ IF TextLength(html, FALSE, FALSE) < MinTextLength
       THEN Reply(p, procs[p], 400, <<"Not enough content">>)
       ELSE Goto(p, procs[p], "extract")
  /\ UNCHANGED <<variant, now, events, nextId, account, calendar, sweep,
                 preDel, page>>

\* POST /api/extract-url: extractEventDataFromText ends, and the data is
\* answered with the source url as ticket url when it has none
ExtractUrlProvider(p, outcome) ==
  /\ procs[p].pc = "extract"
  /\ IF outcome = "error"
       THEN Reply(p, procs[p], 500, <<"Failed to extract">>)
       ELSE Reply(p, procs[p], 200,
                  <<IF outcome = Null THEN procs[p].data ELSE outcome>>)
  /\ UNCHANGED <<variant, now, events, nextId, account, calendar, sweep,
                 preDel, page>>

(***************************************************************************)
(* The extraction adapter and /api/extract                                 *)
(***************************************************************************)
\* a JSON object without fields, and the objects the provider answers with:
\* every field, and some fields null, empty or absent
NoObject ==
  [name |-> Undef, date |-> Undef, time |-> Undef, location |-> Undef,
   ticketUrl |-> Undef, description |-> Undef]
Objects ==
  {NoObject,
   [name |-> "Gig", date |-> "2025-06-01", time |-> "20:00",
    location |-> "Hall", ticketUrl |-> "https://tickets",
    description |-> "with friends"],
   [NoObject EXCEPT !.name = "Market", !.date = "2025-05-31", !.time = Null,
                    !.location = ""]}

\* the pieces of the content of a completion: the three backquotes (fence),
\* the word json, white space, the text of the JSON object o (object), the
\* text null, other text (prose)
Piece(kind, o) == [kind |-> kind, obj |-> o]
Fence == Piece("fence", NoObject)
Json == Piece("json", NoObject)
White == Piece("white", NoObject)

\* the contents with the text v bare, in a json fence and in a plain fence
Wrapped(v) ==
  {<<v>>, <<White, v, White>>,
   <<Fence, Json, White, v, White, Fence>>,
   <<White, Fence, Json, v, Fence, White>>,
   <<Fence, White, v, White, Fence>>, <<Fence, v, Fence>>}

\* the contents of a completion: none, the objects bare or fenced, and
\* contents that are not the text of an object once the fences are off
Contents ==
  {<< >>, <<White>>,
   <<Piece("prose", NoObject), White, Piece("object", NoObject)>>,
   <<Fence, Json, White, Piece("object", NoObject), White, Fence, White,
     Piece("prose", NoObject)>>}
    \cup UNION {Wrapped(Piece("object", o)) : o \in Objects}
    \cup Wrapped(Piece("prose", NoObject))
    \cup Wrapped(Piece("null", NoObject))

\* String.prototype.trim
RECURSIVE TrimStart(_)
TrimStart(c) ==
  IF c # << >> /\ Head(c) = White THEN TrimStart(Tail(c)) ELSE c
RECURSIVE TrimEnd(_)
TrimEnd(c) ==
  IF c # << >> /\ c[Len(c)] = White THEN TrimEnd(SubSeq(c, 1, Len(c) - 1))
  ELSE c
Trim(c) == TrimEnd(TrimStart(c))

\* startsWith, endsWith and slice
StartsWith(c, pre) == Len(c) >= Len(pre) /\ SubSeq(c, 1, Len(pre)) = pre
EndsWith(c, suf) ==
  Len(c) >= Len(suf) /\ SubSeq(c, Len(c) - Len(suf) + 1, Len(c)) = suf
Slice(c, from, to) == SubSeq(c, from + 1, to)

\* cleanContent when only the json fence is taken off the start
CleanContentJsonOnly(content) ==
  LET trimmed == Trim(content)
      opened == IF StartsWith(trimmed, <<Fence, Json>>)
                  THEN Slice(trimmed, 2, Len(trimmed))
                ELSE trimmed
      closed == IF EndsWith(opened, <<Fence>>)
                  THEN Slice(opened, 0, Len(opened) - 1)
                ELSE opened
  IN  Trim(closed)

\* extractEventData: cleanContent, the content without its fence markers
CleanContent(content) ==
  LET trimmed == Trim(content)
      opened == IF StartsWith(trimmed, <<Fence, Json>>)
                  THEN Slice(trimmed, 2, Len(trimmed))
                ELSE IF StartsWith(trimmed, <<Fence>>)
                  THEN Slice(trimmed, 1, Len(trimmed))
                ELSE trimmed
      closed == IF EndsWith(opened, <<Fence>>)
                  THEN Slice(opened, 0, Len(opened) - 1)
                ELSE opened
  IN  Trim(closed)

\* parsed.field || null
OrElseNull(v) == IF v \in {Undef, Null, ""} THEN Null ELSE v

\* extractEventData once the completion has answered: JSON.parse of the clean
\* content, which throws unless it is one JSON text, and the fields of the
\* object, whose reading throws on null
ExtractEventData(content) ==
  LET Returned(data) == [ok |-> TRUE, error |-> Null, data |-> data]
      Thrown(error) == [ok |-> FALSE, error |-> error, data |-> NoObject]
      clean == CleanContent(content)
  IN  IF content = << >> THEN Thrown("No response from AI")
      ELSE IF Len(clean) = 1 /\ clean[1].kind = "object"
        THEN Returned([f \in DOMAIN NoObject |-> OrElseNull(clean[1].obj[f])])
      ELSE Thrown("Failed to parse AI response as JSON")

\* the imageUrl field of the request body
ImageUrls == {Undef, "/uploads/gig.jpg", "/uploads/market.png"}

\* POST /api/extract up to readFile
ExtractPOST(p, u, imageUrl) ==
  /\ Free(p)
  /\ LET req == [Request("extract", u, 0, EmptyBody) EXCEPT
                   !.body = [EmptyBody EXCEPT !.imageUrl = imageUrl]] IN
     IF u = NoUser THEN Reply(p, req, 401, << >>)
     ELSE IF imageUrl = Undef THEN Reply(p, req, 400, << >>)
     ELSE Goto(p, req, "read")
  /\ UNCHANGED <<variant, now, events, nextId, account, calendar, sweep,
                 preDel, page>>

\* POST /api/extract: readFile ends and extractEventData sends the image
ExtractRead(p, ok) ==
  /\ procs[p].pc = "read"
  /\ IF ok THEN Goto(p, procs[p], "complete")
     ELSE Reply(p, procs[p], 500, << >>)
  /\ UNCHANGED <<variant, now, events, nextId, account, calendar, sweep,
                 preDel, page>>

\* extractEventData: chat.completions.create answers with content
ExtractComplete(p, content) ==
  /\ procs[p].pc = "complete"
  /\ Goto(p, [procs[p] EXCEPT !.event = <<ExtractEventData(content)>>],
          "answer")
  /\ UNCHANGED <<variant, now, events, nextId, account, calendar, sweep,
                 preDel, page>>

\* POST /api/extract: the data is answered, or the error is caught
ExtractAnswer(p) ==
  /\ procs[p].pc = "answer"
  /\ LET result == procs[p].event[1] IN
     IF result.ok THEN Reply(p, procs[p], 200, <<result.data>>)
     ELSE Reply(p, procs[p], 500, << >>)
  /\ UNCHANGED <<variant, now, events, nextId, account, calendar, sweep,
                 preDel, page>>

(***************************************************************************)
(* The home page: the list of events and its time filter.                  *)
(***************************************************************************)
\* the offsets from UTC of the browser's clock, in minutes
Zones == {0 - 5 * MinutesPerHour, 0, 2 * MinutesPerHour}

\* ten o'clock UTC of the days from Monday 2025-05-26 to Sunday 2025-06-01
Todays == {d * MinutesPerDay + 10 * MinutesPerHour : d \in (0 - 5)..1}

TimeFilters == {"all", "day", "week", "nextweek", "month"}

\* the day of the instant t on the browser's clock, and the instant at which
\* a day begins on it: new Date(year, month, date)
LocalDay(t, zone) == (t + zone) \div MinutesPerDay
LocalMidnight(day, zone) == day * MinutesPerDay - zone

\* Date.prototype.getDay: 0 for Sunday; day 0, 2025-05-31, is a Saturday
GetDay(day) == (day + 6) % 7

\* new Date(year, month + 1, 1) for the days of May and June 2025
NextMonth(day) == IF day < 1 THEN 1 ELSE 31

\* filteredEvents: the events that the time filter lets through at instant t
FilteredEvents(evs, timeFilter, t, zone) ==
  LET today == LocalDay(t, zone)
      dayOfWeek == GetDay(today)
      startDay == IF timeFilter = "nextweek" THEN today + (7 - dayOfWeek) + 1
                  ELSE today
      endDay == CASE timeFilter = "day" -> today + 1
                  [] timeFilter = "week" -> today + (7 - dayOfWeek)
                  [] timeFilter = "nextweek" -> startDay + 7
                  [] OTHER -> NextMonth(today)
      within(event) == /\ event.date[1] >= LocalMidnight(startDay, zone)
                       /\ event.date[1] < LocalMidnight(endDay, zone)
  IN  IF timeFilter = "all" THEN evs ELSE SelectSeq(evs, within)

\* the rows of a response that lists the ids of out
RowsOf(out) ==
  LET found == SelectSeq(out, LAMBDA i : i \in Rows(events))
  IN  [k \in 1..Len(found) |-> events[found[k]]]

\* the page once setEvents has stored evs
WithEvents(evs) ==
  [page EXCEPT !.events = evs,
               !.filteredEvents = FilteredEvents(evs, page.timeFilter, now,
                                                 page.zone)]

\* fetchEvents up to its fetch of /api/events
fetchEvents ==
  /\ page.pc = "idle"
  /\ Free(1)
  /\ page' = [page EXCEPT !.pc = "fetch"]
  /\ last' = NoResponse
  /\ UNCHANGED <<variant, now, events, nextId, account, calendar, procs,
                 sweep, preDel>>

\* the request of fetchEvents reaches the server
fetchEventsGET ==
  /\ page.view = "home"
  /\ page.pc = "fetch"
  /\ last = NoResponse
  /\ EventsGET(1, "A")

\* fetchEvents: the response is there and setEvents stores its rows
fetchEventsSet ==
  /\ page.pc = "fetch"
  /\ Free(1)
  /\ last # NoResponse
  /\ page' = IF last.status = 200
               THEN [WithEvents(RowsOf(last.out)) EXCEPT !.pc = "idle"]
               ELSE [page EXCEPT !.pc = "idle"]
  /\ UNCHANGED <<variant, now, events, nextId, account, calendar, procs, last,
                 sweep, preDel>>

\* A creates an event from another tab while this page runs no handler
OtherTabPOST(b) ==
  /\ page.pc = "idle"
  /\ EventsPOST(1, "A", b)

\* setTimeFilter, and the render that recomputes filteredEvents
setTimeFilter(timeFilter) ==
  /\ page.timeFilter # timeFilter
  /\ page' = [page EXCEPT !.timeFilter = timeFilter,
                          !.filteredEvents =
                             FilteredEvents(page.events, timeFilter, now,
                                            page.zone)]
  /\ UNCHANGED <<variant, now, events, nextId, account, calendar, procs, last,
                 sweep, preDel>>

(***************************************************************************)
(* The bin page, and the selection of the home page and of the bin page.   *)
(***************************************************************************)
\* the bin page as it is mounted
MountedBinPage == [MountedPage(0) EXCEPT !.view = "bin"]

\* the request of fetchDeletedEvents reaches the server
fetchDeletedEventsGET ==
  /\ page.view = "bin"
  /\ page.pc = "fetch"
  /\ last = NoResponse
  /\ BinGET(1, "A")

\* toggleSelectEvent
toggleSelectEvent(id) ==
  /\ page.pc = "idle"
  /\ \E k \in 1..Len(page.events) : page.events[k].id = id
  /\ page' = [page EXCEPT !.selectedIds =
                IF id \in page.selectedIds THEN page.selectedIds \ {id}
                ELSE page.selectedIds \cup {id}]
  /\ UNCHANGED <<variant, now, events, nextId, account, calendar, procs, last,
                 sweep, preDel>>

\* the bulk operations of each page
BulkOps(view) ==
  IF view = "home" THEN {"softDelete"} ELSE {"restore", "purge"}

\* deleteSelectedEvents, restoreSelected and deleteSelectedPermanently up to
\* Promise.all: a fetch is made for every selected id
bulkSelected(op) ==
  /\ page.pc = "idle"
  /\ op \in BulkOps(page.view)
  /\ page.selectedIds # {}
  /\ page' = [page EXCEPT !.pc = op, !.pending = page.selectedIds,
                          !.responses = {}, !.alerted = FALSE]
  /\ UNCHANGED <<variant, now, events, nextId, account, calendar, procs, last,
                 sweep, preDel>>

\* the server turns to the fetch of one of the selected ids
bulkFetch(id) ==
  /\ page.pc \in BulkOps(page.view)
  /\ id \in page.pending
  /\ page.calling = 0
  /\ Free(1)
  /\ page' = [page EXCEPT !.pending = page.pending \ {id}, !.calling = id]
  /\ last' = NoResponse
  /\ UNCHANGED <<variant, now, events, nextId, account, calendar, procs,
                 sweep, preDel>>

\* the request of that fetch reaches its handler
bulkRequest ==
  /\ page.calling # 0
  /\ last = NoResponse
  /\ CASE page.pc = "softDelete" -> EventDELETE(1, "A", page.calling)
       [] page.pc = "restore" -> BinItemPOST(1, "A", page.calling)
       [] page.pc = "purge" -> BinItemDELETE(1, "A", page.calling)

\* the fetch is fulfilled with the response, whatever its status
bulkResponse ==
  /\ page.calling # 0
  /\ Free(1)
  /\ last # NoResponse
  /\ page' = [page EXCEPT !.calling = 0,
                          !.responses = page.responses \cup
                            {[id |-> page.calling, ok |-> last.status = 200]}]
  /\ UNCHANGED <<variant, now, events, nextId, account, calendar, procs, last,
                 sweep, preDel>>

\* a fetch is rejected, Promise.all is rejected and the catch block alerts
bulkRejected ==
  /\ page.pc \in BulkOps(page.view)
  /\ page.pending # {}
  /\ page.calling = 0
  /\ page' = [page EXCEPT !.pc = "idle", !.pending = {}, !.responses = {},
                          !.alerted = TRUE]
  /\ UNCHANGED <<variant, now, events, nextId, account, calendar, procs, last,
                 sweep, preDel>>

\* every fetch is fulfilled: the selected events are taken off the list and
\* the selection is emptied
bulkFulfilled ==
  /\ page.pc \in BulkOps(page.view)
  /\ page.pending = {}
  /\ page.calling = 0
  /\ page' = [WithEvents(SelectSeq(page.events,
                                   LAMBDA e : e.id \notin page.selectedIds))
                EXCEPT !.pc = "idle", !.selectedIds = {}]
  /\ UNCHANGED <<variant, now, events, nextId, account, calendar, procs, last,
                 sweep, preDel>>

\* A soft-deletes or restores an event from another tab while this page runs
\* no handler
OtherTabDELETE(id) ==
  /\ page.pc = "idle"
  /\ EventDELETE(1, "A", id)
OtherTabRestore(id) ==
  /\ page.pc = "idle"
  /\ BinItemPOST(1, "A", id)

(***************************************************************************)
(* /api/chat and the ChatBot component: the conversation.                  *)
(***************************************************************************)
\* the object of a fenced block: eventReady and the fields that are read
NoPayload ==
  [eventReady |-> FALSE, name |-> Undef, date |-> Undef, time |-> Undef,
   location |-> Undef, description |-> Undef]

\* the objects the provider can put in a fenced block: every detail given,
\* the optional details all "none", no name, no date, and one that is not
\* ready
Payloads ==
  LET Given == [eventReady |-> TRUE, name |-> "Market", date |-> "2025-05-31",
                time |-> "20:00", location |-> "Hall",
                description |-> "with friends"]
  IN  {Given,
       [Given EXCEPT !.time = "none", !.location = "none",
                     !.description = "none"],
       [Given EXCEPT !.name = Undef],
       [Given EXCEPT !.date = Undef],
       [Given EXCEPT !.eventReady = FALSE]}

\* response.choices[0]?.message?.content: whether it holds text outside a
\* fenced block, and its first block tagged json: none, one that holds an
\* object, or one that JSON.parse refuses.  Content with neither is empty.
ChatContents ==
  {[text |-> t, fence |-> "none", payload |-> NoPayload] : t \in BOOLEAN}
    \cup {[text |-> TRUE, fence |-> "broken", payload |-> NoPayload]}
    \cup {[text |-> t, fence |-> "json", payload |-> o] :
            t \in BOOLEAN, o \in Payloads}

\* the match of the fenced block, JSON.parse and the test of eventReady
EventReady(content) == content.fence = "json" /\ content.payload.eventReady

\* the eventData of the response, as JSON.stringify sends it: a key whose
\* value is undefined is left out
EventData(o) ==
  [EmptyBody EXCEPT
     !.name = o.name, !.date = o.date,
     !.time = IF o.time = "none" THEN Null ELSE o.time,
     !.location = IF o.location = "none" THEN Null ELSE o.location,
     !.description = IF o.description \in {Undef, ""} THEN Null
                     ELSE o.description]

\* POST /api/chat up to chat.completions.create; the body that ChatBot sends
\* always holds the messages array
ChatPOST(p, u) ==
  /\ Free(p)
  /\ LET req == Request("chat", u, 0, EmptyBody) IN
     IF u = NoUser THEN Reply(p, req, 401, << >>)
     ELSE Goto(p, req, "chat")
  /\ UNCHANGED <<variant, now, events, nextId, account, calendar, sweep,
                 preDel, page>>

\* POST /api/chat: chat.completions.create answers with content, or throws
ChatComplete(p, ok, content) ==
  /\ procs[p].pc = "chat"
  /\ IF ~ok \/ (~content.text /\ content.fence = "none")
       THEN Reply(p, procs[p], 500, << >>)
       ELSE Reply(p, procs[p], 200,
                  <<[message |-> content,
                     eventData |-> IF EventReady(content)
                                     THEN <<EventData(content.payload)>>
                                     ELSE << >>]>>)
  /\ UNCHANGED <<variant, now, events, nextId, account, calendar, sweep,
                 preDel, page>>

\* no fetch of the component runs on a slot
NoCall == [at |-> "none", eventData |-> << >>]

\* ChatBot as it is rendered first: its state, its ref, and for each request
\* slot the await at which the call that uses it stands
MountedChat ==
  [view |-> "chat", messages |-> << >>, input |-> "", loading |-> FALSE,
   creatingEvent |-> FALSE, eventCreated |-> 0, hasSentGreeting |-> FALSE,
   calls |-> [p \in Procs |-> NoCall]]

Turn(role, content) == [role |-> role, content |-> content]

\* what the user types
Texts == {" ", "yes"}

\* input.trim()
TrimInput(s) == IF s = " " THEN "" ELSE s

\* an input area that is rendered whatever the state
InputShownAlways(pg) == pg.view = "chat"

\* the input area is rendered
InputShown(pg) == pg.eventCreated = 0

\* disabled={loading || creatingEvent}
InputDisabled(pg) == pg.loading \/ pg.creatingEvent

\* the user messages of the transcript
UserTurns(pg) == SelectSeq(pg.messages, LAMBDA m : m.role = "user")

\* a fetch starts on slot p, the first that no call of the component uses
Fetch(pg, p, at, eventData) ==
  /\ pg.calls[p] = NoCall
  /\ \A q \in 1..(p - 1) : pg.calls[q] # NoCall
  /\ Free(p)
  /\ page' = [pg EXCEPT !.calls[p] = [at |-> at, eventData |-> eventData]]
  /\ last' = NoResponse

\* the response of the call on slot p is there
Fetched(p, at, op) ==
  page.calls[p].at = at /\ Free(p) /\ last # NoResponse /\ last.op = op

\* the effect run at mount that skips the greeting
greetUnguarded(p) ==
  /\ page.view = "chat"
  /\ ~page.hasSentGreeting
  /\ Fetch([page EXCEPT !.hasSentGreeting = TRUE], p, "greet", << >>)
  /\ UNCHANGED <<variant, now, events, nextId, account, calendar, procs,
                 sweep, preDel>>

\* the effect run at mount: greet up to its fetch of /api/chat
greet(p) ==
  /\ page.view = "chat"
  /\ ~page.hasSentGreeting
  /\ Fetch([page EXCEPT !.hasSentGreeting = TRUE, !.loading = TRUE], p,
           "greet", << >>)
  /\ UNCHANGED <<variant, now, events, nextId, account, calendar, procs,
                 sweep, preDel>>

\* the request of greet or of sendMessage reaches /api/chat, with A's session
\* or without one
fetchChat(p) ==
  /\ page.view = "chat"
  /\ page.calls[p].at \in {"greet", "send"}
  /\ last = NoResponse
  /\ \E u \in {"A", NoUser} : ChatPOST(p, u)

\* greet: the response is there
greetResponse(p) ==
  /\ Fetched(p, "greet", "chat")
  /\ page' = [page EXCEPT
                !.messages = IF last.status = 200
                               THEN <<Turn("assistant", "reply")>> ELSE @,
                !.loading = FALSE, !.calls[p] = NoCall]
  /\ UNCHANGED <<variant, now, events, nextId, account, calendar, procs, last,
                 sweep, preDel>>

\* greet: the fetch is rejected, before its request is handled or with its
\* response
greetCatch(p) ==
  /\ page.view = "chat"
  /\ page.calls[p].at = "greet"
  /\ Free(p)
  /\ page' = [page EXCEPT !.messages = <<Turn("assistant", "greeting")>>,
                          !.loading = FALSE, !.calls[p] = NoCall]
  /\ UNCHANGED <<variant, now, events, nextId, account, calendar, procs, last,
                 sweep, preDel>>

\* onChange of the input; the effect run at mount has run before any event
\* is handled
setInput(text) ==
  /\ page.view = "chat"
  /\ page.hasSentGreeting
  /\ InputShown(page) /\ ~InputDisabled(page)
  /\ page.input # text
  /\ page' = [page EXCEPT !.input = text]
  /\ UNCHANGED <<variant, now, events, nextId, account, calendar, procs, last,
                 sweep, preDel>>

\* sendMessage, from Enter in the input or from the button, up to its fetch of
\* /api/chat
sendMessage(p) ==
  /\ page.view = "chat"
  /\ page.hasSentGreeting
  /\ InputShown(page) /\ ~InputDisabled(page)
  /\ TrimInput(page.input) # "" /\ ~page.loading
  /\ Len(UserTurns(page)) < MaxUserTurns
  /\ Fetch([page EXCEPT
              !.messages = Append(@, Turn("user", TrimInput(page.input))),
              !.input = "", !.loading = TRUE], p, "send", << >>)
  /\ UNCHANGED <<variant, now, events, nextId, account, calendar, procs,
                 sweep, preDel>>

\* sendMessage: the response of /api/chat is there.  With eventData the
\* message without its block is shown, if any is left, and /api/events is
\* fetched; else the message is shown, if the response holds one.
sendMessageData(p) ==
  /\ Fetched(p, "send", "chat")
  /\ IF last.status = 200 /\ last.out[1].eventData # << >>
       THEN LET data == last.out[1] IN
            /\ page' = [page EXCEPT
                          !.messages = IF data.message.text
                                         THEN Append(@, Turn("assistant", "clean"))
                                         ELSE @,
                          !.creatingEvent = TRUE,
                          !.calls[p] = [at |-> "create",
                                        eventData |-> data.eventData]]
            /\ last' = NoResponse
       ELSE /\ page' = [page EXCEPT
                          !.messages = IF last.status = 200
                                         THEN Append(@, Turn("assistant", "reply"))
                                         ELSE @,
                          !.loading = FALSE, !.calls[p] = NoCall]
            /\ UNCHANGED last
  /\ UNCHANGED <<variant, now, events, nextId, account, calendar, procs,
                 sweep, preDel>>

\* the request of sendMessage reaches /api/events, with A's session or
\* without one
fetchCreate(p) ==
  /\ page.view = "chat"
  /\ page.calls[p].at = "create"
  /\ last = NoResponse
  /\ \E u \in {"A", NoUser} : EventsPOST(p, u, page.calls[p].eventData[1])

\* sendMessage: the response of /api/events is there
sendMessageCreated(p) ==
  /\ Fetched(p, "create", "create")
  /\ page' = [page EXCEPT
                !.eventCreated = IF last.status = 200 THEN last.id ELSE @,
                !.messages = Append(@, Turn("assistant",
                                IF last.status = 200 THEN "created"
                                ELSE "error creating")),
                !.creatingEvent = FALSE, !.loading = FALSE,
                !.calls[p] = NoCall]
  /\ UNCHANGED <<variant, now, events, nextId, account, calendar, procs, last,
                 sweep, preDel>>

\* sendMessage: a fetch is rejected, before its request is handled or with
\* its response, and the catch block and the finally block run
sendMessageCatch(p) ==
  /\ page.view = "chat"
  /\ page.calls[p].at \in {"send", "create"}
  /\ Free(p)
  /\ page' = [page EXCEPT
                !.messages = Append(@, Turn("assistant", "went wrong")),
                !.loading = FALSE, !.calls[p] = NoCall]
  /\ UNCHANGED <<variant, now, events, nextId, account, calendar, procs, last,
                 sweep, preDel>>

(***************************************************************************)
(* The system: requests from the callers, the sweep and the clock.         *)
(***************************************************************************)
\* the requests of the event lifecycle that a caller can send, with the
\* bodies of UB for the updates
Requests(p, u, UB) ==
  \/ EventsGET(p, u)
  \/ BinGET(p, u)
  \/ BinDELETE(p, u)
  \/ \E id \in EventIds :
       \/ EventGET(p, u, id)
       \/ EventDELETE(p, u, id)
       \/ BinItemPOST(p, u, id)
       \/ BinItemDELETE(p, u, id)
       \/ \E b \in UB : EventPUT(p, u, id, b)

\* the steps that take a handler of the lifecycle from one await to the next
Steps(p) ==
  \/ EventsGETFind(p)
  \/ EventPUTUpdate(p)
  \/ EventDELETEUpdate(p)
  \/ BinItemPOSTUpdate(p)
  \/ BinItemDELETEDelete(p)

\* the steps of the calendar sync after its first
SyncSteps(p) ==
  \/ CalendarPOSTAccount(p)
  \/ \E ok \in BOOLEAN : refreshAccessToken(p, ok)
  \/ refreshAccessTokenUpdate(p)
  \/ \E ok \in BOOLEAN : createCalendarEvent(p, ok)
  \/ CalendarPOSTUpdate(p)

Sweep == cleanupExpiredEventsScan \/ cleanupExpiredEventsDelete

\* The event lifecycle, one request at a time next to the background sweep:
\* A creates all-day events; A and B list, read, rename, delete, restore and
\* purge.
Next ==
  \/ Tick
  \/ Sweep
  \/ EventsPOST(1, "A", AllDayBody)
  \/ \E u \in Users : Requests(1, u, {RenameBody})
  \/ Steps(1)

Spec == Init /\ [][Next]_vars

\* The lifecycle without the update: A creates all-day events; A and B list,
\* read, delete, restore and purge, next to the sweep.
NextBin ==
  \/ Tick
  \/ Sweep
  \/ EventsPOST(1, "A", AllDayBody)
  \/ \E u \in Users : Requests(1, u, {})
  \/ EventsGETFind(1)
  \/ EventDELETEUpdate(1)
  \/ BinItemPOSTUpdate(1)
  \/ BinItemDELETEDelete(1)

SpecBin == Init /\ [][NextBin]_vars

\* Every caller on every route of the lifecycle and on the cleanup route: A,
\* B and requests without a session.
NextCallers ==
  \/ Tick
  \/ Sweep
  \/ \E u \in Callers :
       \/ EventsPOST(1, u, AllDayBody)
       \/ Requests(1, u, {AllDayBody})
       \/ CleanupGET(1, u)
  \/ Steps(1)
  \/ deleteExpiredEvents(1)

SpecCallers == Init /\ [][NextCallers]_vars

\* The calendar sync of A's events, one request at a time, next to the soft
\* delete, the restore, the two lists and the sweep.
NextSync ==
  \/ Tick
  \/ Sweep
  \/ EventsPOST(1, "A", AllDayBody)
  \/ EventsGET(1, "A")
  \/ BinGET(1, "A")
  \/ \E id \in EventIds :
       \/ EventGET(1, "A", id)
       \/ EventDELETE(1, "A", id)
       \/ BinItemPOST(1, "A", id)
       \/ CalendarPOST(1, "A", id)
  \/ EventsGETFind(1)
  \/ EventDELETEUpdate(1)
  \/ BinItemPOSTUpdate(1)
  \/ SyncSteps(1)

SpecSync == Init /\ [][NextSync]_vars

\* Concurrent syncs of A's events: every slot takes sync requests.
NextRace ==
  \/ Tick
  \/ EventsPOST(1, "A", AllDayBody)
  \/ \E p \in Procs :
       \/ \E id \in EventIds : CalendarPOST(p, "A", id)
       \/ SyncSteps(p)

SpecRace == Init /\ [][NextRace]_vars

\* the expiries A's account can hold at the first instant: none, one minute,
\* a minute less than the margin, the margin and an hour from then
TokenExpiries ==
  {0, Instants[1] + 1, Instants[1] + RefreshMargin - 1,
   Instants[1] + RefreshMargin, Instants[1] + MinutesPerHour}

\* A's account with any of these expiries, with a refresh token or without
InitToken ==
  /\ InitStore
  /\ \E e \in TokenExpiries, rt \in {"rt0", Null} :
       account = [InitAccount EXCEPT !["A"].expires_at = e,
                                     !["A"].refresh_token = rt]

\* The calendar sync of the events that A creates from the valid bodies, for
\* every account A can have.
NextCalendar ==
  \/ Tick
  \/ \E b \in ValidBodies : EventsPOST(1, "A", b)
  \/ \E id \in EventIds : CalendarPOST(1, "A", id)
  \/ SyncSteps(1)

SpecCalendar == InitToken /\ [][NextCalendar]_vars

\* The sweep that a listing starts, which may fail, over A's events around the
\* first instant, active or in the bin.
NextSweep ==
  \/ Tick
  \/ \E b \in SweepBodies : EventsPOST(1, "A", b)
  \/ EventsGET(1, "A")
  \/ EventsGETFind(1)
  \/ \E id \in EventIds : EventDELETE(1, "A", id)
  \/ EventDELETEUpdate(1)
  \/ Sweep
  \/ cleanupExpiredEventsThrow
  \/ cleanupExpiredEventsCatch

SpecSweep == Init /\ [][NextSweep]_vars

\* The extraction from a url, for every caller, url, outcome of the fetch,
\* page and outcome of the provider.
NextExtract ==
  \/ \E u \in Callers, url \in Urls : ExtractUrlPOST(1, u, url)
  \/ \E outcome \in FetchOutcomes : ExtractUrlFetch(1, outcome)
  \/ \E html \in Pages : ExtractUrlText(1, html)
  \/ \E outcome \in ProviderOutcomes : ExtractUrlProvider(1, outcome)

SpecExtract == Init /\ [][NextExtract]_vars

\* The extraction from a poster, for every caller, image and content of the
\* completion.
NextAdapter ==
  \/ \E u \in Callers, imageUrl \in ImageUrls : ExtractPOST(1, u, imageUrl)
  \/ \E ok \in BOOLEAN : ExtractRead(1, ok)
  \/ \E content \in Contents : ExtractComplete(1, content)
  \/ ExtractAnswer(1)

SpecAdapter == Init /\ [][NextAdapter]_vars

\* the home page on any day of a week, in a browser of any zone
InitFilter ==
  /\ variant \in Variants
  /\ now \in Todays
  /\ events = << >>
  /\ nextId = 1
  /\ account = InitAccount
  /\ calendar = << >>
  /\ procs = [p \in Procs |-> IdleProc]
  /\ last = NoResponse
  /\ sweep = IdleSweep
  /\ preDel = [id \in EventIds |-> << >>]
  /\ \E zone \in Zones : page = MountedPage(zone)

\* The time filter of the home page: A creates events on the Sunday and on
\* the Monday, the page fetches them and A picks a filter.
NextFilter ==
  \/ \E b \in {FullBody, MondayBody} : OtherTabPOST(b)
  \/ fetchEvents
  \/ fetchEventsGET
  \/ EventsGETFind(1)
  \/ cleanupExpiredEventsScan
  \/ fetchEventsSet
  \/ \E timeFilter \in TimeFilters : setTimeFilter(timeFilter)

SpecFilter == InitFilter /\ [][NextFilter]_vars

\* the home page or the bin page in a browser on UTC
InitBulk ==
  /\ variant \in Variants
  /\ now = Instants[1]
  /\ events = << >>
  /\ nextId = 1
  /\ account = InitAccount
  /\ calendar = << >>
  /\ procs = [p \in Procs |-> IdleProc]
  /\ last = NoResponse
  /\ sweep = IdleSweep
  /\ preDel = [id \in EventIds |-> << >>]
  /\ page \in {MountedPage(0), MountedBinPage}

\* The bulk operations of the home page and of the bin page over the events
\* that A creates, soft-deletes and restores from another tab.
NextBulk ==
  \/ OtherTabPOST(AllDayBody)
  \/ \E id \in EventIds : OtherTabDELETE(id) \/ OtherTabRestore(id)
  \/ fetchEvents
  \/ fetchEventsGET
  \/ fetchDeletedEventsGET
  \/ EventsGETFind(1)
  \/ cleanupExpiredEventsScan
  \/ fetchEventsSet
  \/ \E id \in EventIds : toggleSelectEvent(id) \/ bulkFetch(id)
  \/ \E op \in {"softDelete", "restore", "purge"} : bulkSelected(op)
  \/ bulkRequest
  \/ EventDELETEUpdate(1)
  \/ BinItemPOSTUpdate(1)
  \/ BinItemDELETEDelete(1)
  \/ bulkResponse
  \/ bulkRejected
  \/ bulkFulfilled

SpecBulk == InitBulk /\ [][NextBulk]_vars

\* The link to the calendar entry: A creates events, syncs them and sends
\* updates whose body names a calendar entry.
NextLink ==
  \/ EventsPOST(1, "A", AllDayBody)
  \/ \E id \in EventIds :
       \/ CalendarPOST(1, "A", id)
       \/ EventPUT(1, "A", id, [RenameBody EXCEPT !.googleEventId = "forged"])
       \/ EventPUT(1, "A", id, RenameBody)
  \/ EventPUTUpdate(1)
  \/ SyncSteps(1)

SpecLink == InitToken /\ [][NextLink]_vars

\* Concurrent requests on the bin: A creates events and puts them in the bin;
\* every slot takes A's restores and purges.
NextPurgeRace ==
  \/ EventsPOST(1, "A", AllDayBody)
  \/ \E id \in EventIds : EventDELETE(1, "A", id)
  \/ EventDELETEUpdate(1)
  \/ \E p \in Procs :
       \/ \E id \in EventIds : BinItemPOST(p, "A", id) \/ BinItemDELETE(p, "A", id)
       \/ BinItemPOSTUpdate(p)
       \/ BinItemDELETEDelete(p)

SpecPurgeRace == Init /\ [][NextPurgeRace]_vars

\* The sweep next to the update: A creates all-day events of 2025-05-31, lists
\* them, which starts the sweep, and moves them to Monday 2025-06-02.
NextSweepRace ==
  \/ Tick
  \/ EventsPOST(1, "A", AllDayBody)
  \/ EventsGET(1, "A")
  \/ EventsGETFind(1)
  \/ \E id \in EventIds : EventPUT(1, "A", id, MondayBody)
  \/ EventPUTUpdate(1)
  \/ Sweep

SpecSweepRace == Init /\ [][NextSweepRace]_vars

\* The sync next to the removals: slot 1 runs A's syncs; slot 2 creates A's
\* events, puts them in the bin and purges them, one by one or all at once.
\* A's access token is valid throughout, so that no sync refreshes it.
NextSyncPurge ==
  \/ \E id \in EventIds : CalendarPOST(1, "A", id)
  \/ CalendarPOSTAccount(1)
  \/ \E ok \in BOOLEAN : createCalendarEvent(1, ok)
  \/ CalendarPOSTUpdate(1)
  \/ EventsPOST(2, "A", AllDayBody)
  \/ BinDELETE(2, "A")
  \/ \E id \in EventIds : EventDELETE(2, "A", id) \/ BinItemDELETE(2, "A", id)
  \/ EventDELETEUpdate(2)
  \/ BinItemDELETEDelete(2)

SpecSyncPurge == Init /\ [][NextSyncPurge]_vars

\* the chat page in A's browser, as it is rendered first
InitChat ==
  /\ variant \in Variants
  /\ now = Instants[1]
  /\ events = << >>
  /\ nextId = 1
  /\ account = InitAccount
  /\ calendar = << >>
  /\ procs = [p \in Procs |-> IdleProc]
  /\ last = NoResponse
  /\ sweep = IdleSweep
  /\ preDel = [id \in EventIds |-> << >>]
  /\ page = MountedChat

\* The conversation: the greeting, what the user types and sends, the
\* provider's answers and the creation of the event.
NextChat ==
  \/ \E text \in Texts : setInput(text)
  \/ \E p \in Procs :
       \/ greet(p)
       \/ fetchChat(p)
       \/ \E ok \in BOOLEAN, content \in ChatContents : ChatComplete(p, ok, content)
       \/ greetResponse(p)
       \/ greetCatch(p)
       \/ sendMessage(p)
       \/ sendMessageData(p)
       \/ fetchCreate(p)
       \/ sendMessageCreated(p)
       \/ sendMessageCatch(p)

SpecChat == InitChat /\ [][NextChat]_vars

\* What the form can submit: A creates and updates events from every body and
\* reads them back.
NextForm ==
  \/ \E b \in ValidBodies \cup InvalidBodies : EventsPOST(1, "A", b)
  \/ \E id \in EventIds :
       \/ EventGET(1, "A", id)
       \/ \E b \in ValidBodies \cup InvalidBodies : EventPUT(1, "A", id, b)
  \/ EventPUTUpdate(1)

SpecForm == Init /\ [][NextForm]_vars

(***************************************************************************)
(* Properties of the event lifecycle.                                      *)
(***************************************************************************)
\* the ids that a response carries
Range(out) == {out[k] : k \in 1..Len(out)}

\* C1: once an event is soft-deleted, the list of active events that its
\* owner is sent does not hold it and the bin list that its owner is sent
\* holds it, whichever version of the list is deployed.
C1_SoftDeletedOnlyInBin ==
  [][/\ EventsGETFind(1) =>
          \A i \in Range(last'.out) : events[i].deletedAt = NoDate
     /\ \A u \in Users :
          BinGET(1, u) =>
            \A i \in Rows(events) :
              events[i].userId = u /\ events[i].deletedAt # NoDate
                => i \in Range(last'.out)]_vars

\* C2: whatever the interleaving of the requests, the calendar provider holds
\* at most one entry per event: no entry is created for an event that already
\* has one.
C2_OneEntryPerEvent ==
  \A i, j \in 1..Len(calendar) :
    calendar[i].eventId = calendar[j].eventId => i = j

\* C3: a sync request for an event in the bin is answered at once with 404
\* Event not found: no token is refreshed, no entry is created and the
\* event's googleEventId stays as it is.
C3_BinnedEventNotSynced ==
  [][\A id \in EventIds :
       /\ CalendarPOST(1, "A", id)
       /\ id \in Rows(events)
       /\ events[id].deletedAt # NoDate
       => /\ procs'[1].pc = "idle"
          /\ last'.status = 404
          /\ account' = account
          /\ calendar' = calendar
          /\ events' = events]_vars

\* a step taken for a request of caller u: the request arrives, its handler
\* goes on, or the sweep that its list request started goes on
ActsFor(u) ==
  \/ EventsPOST(1, u, AllDayBody)
  \/ Requests(1, u, {AllDayBody})
  \/ CleanupGET(1, u)
  \/ (Steps(1) \/ deleteExpiredEvents(1)) /\ procs[1].user = u
  \/ Sweep /\ sweep.user = u

\* C4: no step taken for a request of a user sends that user, changes or
\* removes an event that another user owns.
C4_OnlyOwnEvents ==
  [][\A u \in Users :
       ActsFor(u) =>
         /\ \A i \in Rows(events) :
              events[i].userId # u => i \in Rows(events') /\ events'[i] = events[i]
         /\ last' # last =>
              \A i \in Range(last'.out) \cap Rows(events') : events'[i].userId = u]_vars

\* C5: a request without a session, on whichever route, is answered at once
\* with 401 Unauthorized and leaves the store, the accounts and the calendar
\* as they are.
C5_NoSessionUnauthorized ==
  [][ActsFor(NoUser) =>
        /\ procs'[1].pc = "idle"
        /\ last'.status = 401
        /\ events' = events
        /\ account' = account
        /\ calendar' = calendar]_vars

\* C6: a restore or a purge of one event whose id names no row, a row of
\* another user or a row that is not in the bin is answered at once with 404
\* and leaves the store as it is: no active event is removed by the purge.
C6_NotInBinRejected ==
  [][\A u \in Users, id \in EventIds :
       /\ BinItemPOST(1, u, id) \/ BinItemDELETE(1, u, id)
       /\ \/ id \notin Rows(events)
          \/ events[id].userId # u
          \/ events[id].deletedAt = NoDate
       => /\ procs'[1].pc = "idle"
          /\ last'.status = 404
          /\ events' = events]_vars

\* a purge of an active event has been answered with 404 and the event is
\* still there, active
C6_PurgeOfActiveRejected ==
  /\ last.op = "purgeOne"
  /\ last.status = 404
  /\ last.id \in Rows(events)
  /\ events[last.id].deletedAt = NoDate

\* C7: the restore of a soft-deleted event gives back the row as it was
\* before the soft delete, deletedAt null and every other field as it was;
\* from then on the list of active events holds it and the bin list does not.
C7_RestoreUndoesSoftDelete ==
  [][/\ \A id \in EventIds :
          /\ BinItemPOSTUpdate(1)
          /\ procs[1].id = id
          /\ id \in Rows(events)
          /\ preDel[id] # << >>
          => /\ last'.status = 200
             /\ events'[id].deletedAt = NoDate
             /\ events'[id] = preDel[id][1]
     /\ EventsGETFind(1) =>
          \A i \in Rows(events) :
            events[i].userId = procs[1].user /\ events[i].deletedAt = NoDate
              => i \in Range(last'.out)
     /\ \A u \in Users :
          BinGET(1, u) =>
            \A i \in Range(last'.out) : events[i].deletedAt # NoDate]_vars

\* an event that was synced, then soft-deleted, has been restored
C7_SyncedEventRestored ==
  /\ last.op = "restore"
  /\ last.status = 200
  /\ last.id \in Rows(events)
  /\ preDel[last.id] = <<events[last.id]>>
  /\ events[last.id].googleEventId # Null

\* C8: an event that was removed never comes back: its id names no row from
\* then on, a get and a restore of it are answered with 404, and neither list
\* holds it.
C8_PurgedStaysGone ==
  [][\A id \in EventIds :
       id < nextId /\ id \notin Rows(events) =>
         /\ id \notin Rows(events')
         /\ \A u \in Users :
              EventGET(1, u, id) \/ BinItemPOST(1, u, id) =>
                procs'[1].pc = "idle" /\ last'.status = 404
         /\ EventsGETFind(1) \/ (\E u \in Users : BinGET(1, u)) =>
              id \notin Range(last'.out)]_vars

\* where nothing sweeps, a get of a purged event has been answered with 404
C8_GetOfPurgedNotFound ==
  /\ variant = Current
  /\ last.op = "get"
  /\ last.status = 404
  /\ last.id < nextId
  /\ last.id \notin Rows(events)

\* the bodies that the form is given
FormBodies == ValidBodies \cup InvalidBodies

\* the row holds every field that the body b submits, and is not in the bin
Submitted(row, b) ==
  /\ row.name = b.name
  /\ row.date = NewDate(b.date)
  /\ b.endDate # Undef => row.endDate = NewDate(b.endDate)
  /\ \A f \in {"description", "location", "time", "ticketUrl", "price",
               "imageUrl"} :
       b[f] # Undef => row[f] = b[f]
  /\ row.deletedAt = NoDate

\* C9: a create from a body with a name and a start date is answered with 200
\* and stores an event that holds every submitted field, deletedAt null; a
\* get of an active event by its owner is answered with that event.
C9_CreateGetRoundTrip ==
  [][/\ \A b \in FormBodies :
          /\ EventsPOST(1, "A", b)
          /\ b.name # Undef
          /\ NewDate(b.date) # NoDate
          => /\ last'.status = 200
             /\ last'.out = <<nextId>>
             /\ nextId \in Rows(events')
             /\ Submitted(events'[nextId], b)
     /\ \A id \in EventIds :
          /\ EventGET(1, "A", id)
          /\ id \in Rows(events)
          /\ events[id].userId = "A"
          /\ events[id].deletedAt = NoDate
          => last'.status = 200 /\ last'.out = <<id>>]_vars

\* the body lacks the name or the start date, or ends before it starts
Invalid(b) ==
  \/ b.name = Undef
  \/ NewDate(b.date) = NoDate
  \/ /\ NewDate(b.endDate) # NoDate
     /\ NewDate(b.endDate)[1] < NewDate(b.date)[1]

\* C10: a create or an update from a body that lacks the name or the start
\* date, or whose end date is before its start date, is answered at once with
\* an error, nothing being written: the store stays as it is.
C10_InvalidInputRejected ==
  [][\A b \in FormBodies :
       /\ Invalid(b)
       /\ EventsPOST(1, "A", b) \/ (\E id \in EventIds : EventPUT(1, "A", id, b))
       => /\ procs'[1].pc = "idle"
          /\ last'.status # 200
          /\ events' = events]_vars

(***************************************************************************)
(* Properties of the calendar sync and of the sweep.                       *)
(***************************************************************************)
\* C11: the sync goes to the token refresh exactly when the account holds no
\* expiry or one less than the margin after now; the refresh ends the sync
\* with 401 or stores the new token and its expiry in the account before
\* anything is created, and the entry is created with the token the sync then
\* holds, which is the one in the account.
C11_RefreshBeforeCreate ==
  [][LET u == procs[1].user
         acc == account[u]
     IN  /\ CalendarPOSTAccount(1) /\ acc.access_token # Null =>
              IF acc.expires_at = 0 \/ acc.expires_at - now < RefreshMargin
                THEN procs'[1].pc = "refresh"
                ELSE /\ procs'[1].pc = "create"
                     /\ procs'[1].accessToken = acc.access_token
                     /\ account' = account
         /\ procs[1].pc = "refresh" /\ procs'[1] # procs[1] =>
              /\ calendar' = calendar
              /\ account' = account
              /\ \/ procs'[1].pc = "persist" /\ procs'[1].data # Null
                 \/ procs'[1].pc = "idle" /\ last'.status = 401
         /\ procs[1].pc = "persist" /\ procs'[1] # procs[1] =>
              /\ calendar' = calendar
              /\ account'[u].access_token = procs[1].data
              /\ account'[u].expires_at = now + ExpiresIn
              /\ procs'[1].pc = "create"
              /\ procs'[1].accessToken = procs[1].data
         /\ procs[1].pc = "create" /\ calendar' # calendar =>
              /\ calendar'[Len(calendar')].token = procs[1].accessToken
              /\ acc.access_token = procs[1].accessToken]_vars

\* an entry has been created with the refreshed token, which the account holds
C11_CreatedWithNewToken ==
  /\ Len(calendar) > 0
  /\ calendar[1].token = "at1"
  /\ account["A"].access_token = "at1"
  /\ account["A"].expires_at = now + ExpiresIn

\* C12: every timed entry of the calendar starts at its event's date and time
\* of day and ends exactly one hour later.
C12_TimedEntryLastsOneHour ==
  \A i \in 1..Len(calendar) :
    LET entry == calendar[i] IN
    ~entry.allDay /\ entry.eventId \in Rows(events) =>
      /\ entry.start = EventDateTime(events[entry.eventId])
      /\ entry.end = << entry.start[1] + MinutesPerHour >>

\* the day of an instant
DayOf(t) == t \div MinutesPerDay

\* C13: the scan of a sweep marks every active event of its user that has
\* no time of day and is dated the day before the day of the sweep.
C13_YesterdayAllDayPurged ==
  [][cleanupExpiredEventsScan =>
       \A i \in Rows(events) :
         /\ events[i].userId = sweep.user
         /\ events[i].deletedAt = NoDate
         /\ events[i].time = Null
         /\ DayOf(events[i].date[1]) = DayOf(sweep.now) - 1
         => i \in sweep'.ids]_vars

\* C14: the scan of a sweep marks every event of its user that is an hour
\* past its date and time, or past 23:59 of its date, in the bin or not.
C14_BinnedExpiredPurged ==
  [][cleanupExpiredEventsScan =>
       \A i \in Rows(events) :
         /\ events[i].userId = sweep.user
         /\ sweep.now >= EventDateTime(events[i])[1] + MinutesPerHour
         => i \in sweep'.ids]_vars

\* C15: a listing that awaits its findMany can be answered whatever the sweep
\* is doing, and is answered with 200; the failure of the sweep and its
\* logging change neither a request in flight nor a response.
C15_SweepFailureNotSurfaced ==
  /\ [](procs[1].op = "listActive" /\ procs[1].pc = "list" =>
          ENABLED EventsGETFind(1))
  /\ [][/\ procs[1].op = "listActive" /\ procs[1].pc = "list"
           /\ procs'[1].pc = "idle"
           => last'.op = "listActive" /\ last'.status = 200
        /\ (sweep'.pc = "rejected") # (sweep.pc = "rejected") =>
             procs' = procs /\ last' = last]_vars

\* a listing has been answered with 200 and the sweep it started has failed
C15_ListedWhileSweepFailed ==
  /\ procs[1].pc = "idle"
  /\ last.op = "listActive"
  /\ last.status = 200
  /\ sweep.pc = "rejected"

ErrorOf(r) == IF r.status = 200 THEN Null ELSE r.out[1]

\* C16: extractEventDataFromText is called only by a run whose url has the
\* protocol http: or https:, whose fetch was answered ok and whose page has
\* at least 50 characters of text, and the run ends when the call ends; a run
\* that fails one of these checks ends there, with the error of that check.
C16_ProviderCalledOnceAfterChecks ==
  [][LET run == procs[1]
         step(from, to) == run.pc = from /\ procs'[1].pc = to
         ends(from) == step(from, "idle") /\ last'.op = "extractUrl"
     IN  /\ procs'[1].pc = "fetch" /\ procs'[1].pc # run.pc =>
              /\ Free(1)
              /\ procs'[1].data \in
                   {"http://tickets.example/gig", "HTTPS://tickets.example/gig"}
         /\ \A u \in Users, url \in Urls :
              ExtractUrlPOST(1, u, url) /\ url # Undef =>
                IF url \in {"http://tickets.example/gig",
                            "HTTPS://tickets.example/gig"}
                  THEN procs'[1].pc = "fetch"
                  ELSE procs'[1].pc = "idle" /\ ErrorOf(last') = "Invalid URL"
         /\ procs'[1].pc = "text" /\ procs'[1].pc # run.pc =>
              run.pc = "fetch" /\ procs'[1].data = run.data
         /\ \A outcome \in FetchOutcomes :
              ExtractUrlFetch(1, outcome) =>
                CASE outcome = "ok" -> procs'[1].pc = "text"
                  [] outcome = "not ok" ->
                       ends("fetch") /\ ErrorOf(last') = "Failed to fetch"
                  [] outcome = "timeout" ->
                       ends("fetch") /\ last'.status = 408
                       /\ ErrorOf(last') = "Took too long"
                  [] OTHER ->
                       ends("fetch")
                       /\ ErrorOf(last') \notin
                            {Null, "Invalid URL", "Failed to fetch",
                             "Took too long", "Not enough content"}
         /\ procs'[1].pc = "extract" /\ procs'[1].pc # run.pc =>
              run.pc = "text" /\ procs'[1].data = run.data
         /\ \A html \in Pages :
              ExtractUrlText(1, html) =>
                IF TextLength(html, FALSE, FALSE) >= 50
                  THEN procs'[1].pc = "extract"
                  ELSE ends("text") /\ ErrorOf(last') = "Not enough content"
         /\ run.pc = "extract" /\ procs'[1].pc # run.pc => ends("extract")]_vars

\* a run has called the provider and has answered what it extracted
C16_ExtractedAfterChecks ==
  /\ procs[1].pc = "idle"
  /\ last.op = "extractUrl"
  /\ last.status = 200

\* C17: for every JSON object, extractEventData returns the object's six
\* fields, null for those that are absent, null or empty, whether the content
\* is the object bare, in a json fence or in a plain fence; it throws the
\* parse error for content that is not JSON once the fences are off, and the
\* error of no response for empty content.
C17_FencesDoNotChangeResult ==
  [][\A content \in Contents :
       ExtractComplete(1, content) =>
         LET result == procs'[1].event[1] IN
         /\ \A o \in Objects :
              content \in Wrapped(Piece("object", o)) =>
                /\ result.ok
                /\ \A f \in DOMAIN o :
                     result.data[f] =
                       IF o[f] \in {Undef, Null, ""} THEN Null ELSE o[f]
         /\ content \in Wrapped(Piece("prose", NoObject)) =>
              ~result.ok /\ result.error = "Failed to parse AI response as JSON"
         /\ content = << >> =>
              ~result.ok /\ result.error = "No response from AI"]_vars

\* the object with a null time and an empty location has been returned, both
\* as null
C17_PartialObjectReturned ==
  /\ procs[1].pc = "answer"
  /\ procs[1].event[1].ok
  /\ procs[1].event[1].data.name = "Market"
  /\ procs[1].event[1].data.time = Null
  /\ procs[1].event[1].data.location = Null

(***************************************************************************)
(* Properties of the pages.                                                *)
(***************************************************************************)
\* the ids of the events in a list
IdsOf(evs) == {evs[k].id : k \in 1..Len(evs)}

\* the first Sunday from the browser's today on, and the day after it
UpcomingSunday ==
  LET today == LocalDay(now, page.zone)
  IN  CHOOSE d \in today..(today + 6) : d % 7 = 1
MondayAfter == UpcomingSunday + 1

\* C18: when the filter is set to week, the events of the page that are dated
\* the upcoming Sunday are shown and those dated the Monday after are not;
\* when it is set to nextweek, those dated that Monday are shown.
C18_WeekEndsWithSunday ==
  [][/\ setTimeFilter("week") =>
          \A k \in 1..Len(page.events) :
            LET event == page.events[k] IN
            /\ event.date = << UpcomingSunday * MinutesPerDay >> =>
                 event.id \in IdsOf(page'.filteredEvents)
            /\ event.date = << MondayAfter * MinutesPerDay >> =>
                 event.id \notin IdsOf(page'.filteredEvents)
     /\ setTimeFilter("nextweek") =>
          \A k \in 1..Len(page.events) :
            LET event == page.events[k] IN
            event.date = << MondayAfter * MinutesPerDay >> =>
              event.id \in IdsOf(page'.filteredEvents)]_vars

\* C19: when a bulk operation is over, every id whose call was not answered
\* with success is still on the list of the page.
C19_FailedIdStaysListed ==
  [][bulkFulfilled =>
       \A r \in page.responses :
         ~r.ok => r.id \in IdsOf(page'.events)]_vars

(***************************************************************************)
(* Properties of the link to the calendar, of the bin and of the races.    *)
(***************************************************************************)
\* C21: the googleEventId of every event is null or the id of an entry that
\* createCalendarEvent has created for that event.
C21_LinkOnlyFromCreate ==
  \A i \in Rows(events) :
    events[i].googleEventId # Null =>
      \E k \in 1..Len(calendar) :
        calendar[k].id = events[i].googleEventId /\ calendar[k].eventId = i

\* C22: a soft delete of an event that is already in the bin is answered with
\* 404 and leaves its deletedAt as it was.
C22_BinnedDeleteNotFound ==
  [][\A id \in Rows(events) :
       events[id].deletedAt # NoDate =>
         /\ EventDELETE(1, "A", id) => last'.status = 404
         /\ EventDELETEUpdate(1) /\ procs[1].id = id =>
              events'[id].deletedAt = events[id].deletedAt]_vars

\* C27: prisma.event.delete of purgeOne removes no event whose deletedAt is
\* null when it is removed, whatever restore does on the other slot.
C27_PurgeRemovesOnlyBinned ==
  [][\A p \in Procs :
       BinItemDELETEDelete(p) /\ procs[p].id \in Rows(events) =>
         events[procs[p].id].deletedAt # NoDate]_vars

\* C28: the sweep's deleteMany removes only events whose stored date and time
\* are past their expiry when they are removed; an event that an update has
\* moved to a later day since the scan stays.
C28_SweepRemovesOnlyExpired ==
  [][cleanupExpiredEventsDelete =>
       \A i \in sweep.ids \cap Rows(events) : now >= ExpiryTime(events[i])]_vars

\* C29: when a sync that has created a calendar entry ends, the event is in the
\* store and holds the id of that entry, whatever was purged since the sync
\* loaded the event.
C29_CreatedEntryIsRecorded ==
  [][\A p \in Procs :
       CalendarPOSTUpdate(p) =>
         /\ procs[p].id \in Rows(events')
         /\ events'[procs[p].id].googleEventId = procs[p].googleEventId]_vars

(***************************************************************************)
(* Properties of the conversation.                                         *)
(***************************************************************************)
\* the slots on which a call of the component is outstanding
Outstanding(pg) == {p \in Procs : pg.calls[p] # NoCall}

\* C23: at most one call of the conversation is outstanding and at most one
\* request awaits the provider; a message is sent only when no call is
\* outstanding, neither the greeting nor an earlier message nor the creation
\* of the event.
C23_OneCallOutstanding ==
  [][/\ \A p \in Procs : sendMessage(p) => Outstanding(page) = {}
     /\ Cardinality(Outstanding(page')) <= 1
     /\ Cardinality({p \in Procs : procs'[p].op = "chat"}) <= 1]_vars

\* a message is sent and its request awaits the provider
C23_SendAwaitsProvider ==
  \E p \in Procs :
    page.calls[p].at = "send" /\ procs[p].pc = "chat" /\ page.loading

\* C24: a response of /api/chat carries a draft only if the object of the
\* fenced block holds a true eventReady, a name and a date.
C24_DraftOnlyWhenComplete ==
  last.op = "chat" /\ last.status = 200 /\ last.out[1].eventData # << >> =>
    LET o == last.out[1].message.payload IN
      o.eventReady /\ o.name # Undef /\ o.date # Undef

\* C25: in the draft of a response of /api/chat neither time nor location
\* nor description holds "none": a "none" of the object has become null.
C25_NoneBecomesNull ==
  last.op = "chat" /\ last.status = 200 /\ last.out[1].eventData # << >> =>
    LET o == last.out[1].message.payload
        draft == last.out[1].eventData[1]
    IN  /\ draft.time = (IF o.time = "none" THEN Null ELSE o.time)
        /\ draft.location = (IF o.location = "none" THEN Null ELSE o.location)
        /\ draft.description =
             (IF o.description = "none" THEN Null ELSE o.description)

\* C26: when the creation of the event fails, by a response that is not ok or
\* by a fetch that is rejected before its request is handled, the turns shown
\* so far stay as they are, one error turn is added after them, the
\* conversation is not in its created state and the input takes a further
\* message.
C26_FailedCreationKeepsConversation ==
  [][\A p \in Procs :
       \/ sendMessageCreated(p) /\ last.status # 200
       \/ sendMessageCatch(p) /\ page.calls[p].at = "create" /\ last = NoResponse
       => /\ Len(page'.messages) = Len(page.messages) + 1
          /\ SubSeq(page'.messages, 1, Len(page.messages)) = page.messages
          /\ page'.messages[Len(page'.messages)].role = "assistant"
          /\ page'.eventCreated = 0
          /\ InputShown(page') /\ ~InputDisabled(page')]_vars

\* C30: a conversation creates at most one event.  Once /api/events has created
\* the event no message is sent and no creation is requested, and the created
\* state, once set, holds the id of that event; a creation is requested only
\* with the draft of a response of /api/chat that the component has read.
C30_OneEventPerConversation ==
  [][/\ Cardinality(Rows(events')) <= 1
     /\ Rows(events) # {} =>
          \A p \in Procs : ~sendMessage(p) /\ ~fetchCreate(p)
     /\ page'.eventCreated # 0 => page'.eventCreated \in Rows(events')
     /\ \A p \in Procs :
          page'.calls[p].at = "create" /\ page.calls[p].at # "create" =>
            /\ last.op = "chat" /\ last.status = 200
            /\ page'.calls[p].eventData = last.out[1].eventData
            /\ last.out[1].eventData # << >>]_vars

\* the event is created and the conversation is in its created state
C30_EventCreated ==
  page.eventCreated \in Rows(events) /\ ~InputShown(page)

====
